---- MODULE Spec2Model ----
(***************************************************************************)
(* Monetary-unit-sampling planner and extractor of src/src/lib.rs          *)
(* (mus_planning, mus_extraction and their numeric helpers).               *)
(*                                                                         *)
(* f64 values are modelled as exact rationals plus the three IEEE specials *)
(* NaN, +inf and -inf.  Rounding error of the binary representation and    *)
(* the sign of zero are not modelled; every operation below follows the    *)
(* IEEE rule for the special values (NaN never compares, inf - inf = NaN,  *)
(* x / 0 = +-inf, 0 / 0 = NaN).                                            *)
(***************************************************************************)
EXTENDS Integers, Sequences, FiniteSets, TLC

(***************************************************************************)
(* Bounds of the model.                                                    *)
(***************************************************************************)
MaxItems == 3

MaxNMin == 1

MaxSeed == 1

\* u64::MAX and usize::MAX, narrowed to 12 bits
U64Max == 4095

(***************************************************************************)
(* f64                                                                     *)
(***************************************************************************)
RECURSIVE GCD(_, _)
GCD(a, b) == IF b = 0 THEN a ELSE GCD(b, a % b)

Abs(i) == IF i < 0 THEN -i ELSE i

Min(a, b) == IF a <= b THEN a ELSE b

Max(a, b) == IF a >= b THEN a ELSE b

\* the finite value n/d (d > 0) in lowest terms
Fin(n, d) ==
    LET g == GCD(Abs(n), d)
    IN  [k |-> "fin", n |-> n \div g, d |-> d \div g]

Whole(i) == [k |-> "fin", n |-> i, d |-> 1]

NaN == [k |-> "nan", n |-> 0, d |-> 1]

PInf == [k |-> "inf", n |-> 1, d |-> 1]

NInf == [k |-> "inf", n |-> -1, d |-> 1]

Zero == Whole(0)

IsNaN(x) == x.k = "nan"

IsFin(x) == x.k = "fin"

\* -1, 0 or 1 for a value that is not NaN
Sign(x) == IF x.n > 0 THEN 1 ELSE IF x.n < 0 THEN -1 ELSE 0

InfOf(s) == IF s > 0 THEN PInf ELSE NInf

FNeg(x) == IF IsNaN(x) THEN NaN ELSE [x EXCEPT !.n = -x.n]

FAdd(x, y) ==
    IF IsNaN(x) \/ IsNaN(y) THEN NaN
    ELSE IF x.k = "inf" /\ y.k = "inf" THEN (IF x.n = y.n THEN x ELSE NaN)
    ELSE IF x.k = "inf" THEN x
    ELSE IF y.k = "inf" THEN y
    ELSE Fin(x.n * y.d + y.n * x.d, x.d * y.d)

FSub(x, y) == FAdd(x, FNeg(y))

FMul(x, y) ==
    IF IsNaN(x) \/ IsNaN(y) THEN NaN
    ELSE IF x.k = "inf" \/ y.k = "inf"
         THEN (IF Sign(x) * Sign(y) = 0 THEN NaN ELSE InfOf(Sign(x) * Sign(y)))
    ELSE Fin(x.n * y.n, x.d * y.d)

FDiv(x, y) ==
    IF IsNaN(x) \/ IsNaN(y) THEN NaN
    ELSE IF x.k = "inf" /\ y.k = "inf" THEN NaN
    ELSE IF x.k = "inf" THEN InfOf(x.n * (IF Sign(y) < 0 THEN -1 ELSE 1))
    ELSE IF y.k = "inf" THEN Zero
    ELSE IF y.n = 0 THEN (IF x.n = 0 THEN NaN ELSE InfOf(Sign(x)))
    ELSE IF y.n > 0 THEN Fin(x.n * y.d, x.d * y.n)
    ELSE Fin(-(x.n * y.d), x.d * (-y.n))

\* x < y; false as soon as one side is NaN
FLt(x, y) ==
    /\ ~IsNaN(x)
    /\ ~IsNaN(y)
    /\ IF x.k = "inf" THEN x.n < 0 /\ y # x
       ELSE IF y.k = "inf" THEN y.n > 0
       ELSE x.n * y.d < y.n * x.d

FEq(x, y) == ~IsNaN(x) /\ ~IsNaN(y) /\ x = y

FLe(x, y) == FLt(x, y) \/ FEq(x, y)

FGt(x, y) == FLt(y, x)

FGe(x, y) == FLe(y, x)

FAbs(x) == IF IsNaN(x) THEN NaN ELSE [x EXCEPT !.n = Abs(x.n)]

\* f64::max: a NaN operand is ignored
FMax(x, y) ==
    IF IsNaN(x) THEN y
    ELSE IF IsNaN(y) THEN x
    ELSE IF FLt(x, y) THEN y ELSE x

\* f64::round: to the nearest integer, halfway cases away from zero
FRound(x) ==
    IF ~IsFin(x) THEN x
    ELSE IF x.n >= 0 THEN Whole((2 * x.n + x.d) \div (2 * x.d))
    ELSE Whole(-((2 * (-x.n) + x.d) \div (2 * x.d)))

FCeil(x) == IF ~IsFin(x) THEN x ELSE Whole(-((-x.n) \div x.d))

\* `x as u64` / `x as usize`: truncating, saturating, NaN to 0
AsU64(x) ==
    IF IsNaN(x) THEN 0
    ELSE IF x.k = "inf" THEN (IF x.n > 0 THEN U64Max ELSE 0)
    ELSE IF x.n <= 0 THEN 0
    ELSE Min(x.n \div x.d, U64Max)

is_finite_non_nan(x) == IsFin(x) /\ ~IsNaN(x)

RECURSIVE SumMax0(_)
SumMax0(s) == IF s = <<>> THEN Zero ELSE FAdd(FMax(Head(s), Zero), SumMax0(Tail(s)))

sum_nonneg(values) == SumMax0(values)

RECURSIVE FSum(_)
FSum(s) == IF s = <<>> THEN Zero ELSE FAdd(Head(s), FSum(Tail(s)))

round_to_u64(x) ==
    LET r == FRound(x)
    IN  IF FLt(r, Zero) THEN 0 ELSE AsU64(r)

ceil_to_u64(x) == IF FLe(x, Zero) THEN 0 ELSE AsU64(FCeil(x))

ceil_to_usize(x) == IF FLe(x, Zero) THEN 0 ELSE AsU64(FCeil(x))

(***************************************************************************)
(* Results: Ok(v), Err(MusError) or a panic (abnormal abort).              *)
(***************************************************************************)
Ok(v) == [tag |-> "Ok", v |-> v]

Err(kind, msg) == [tag |-> "Err", kind |-> kind, msg |-> msg]

InvalidInput(msg) == Err("InvalidInput", msg)

Calculation(msg) == Err("Calculation", msg)

(***************************************************************************)
(* Hypergeometric distribution (statrs): X ~ Hypergeom(population N,       *)
(* successes m, draws k).  CdfAtMost compares P[X <= q] with alpha = a/b   *)
(* exactly: b * sum_{i<=q} C(m,i) C(N-m,k-i) <= a * C(N,k).                *)
(***************************************************************************)
RECURSIVE Binom(_, _)
Binom(n, r) ==
    IF r < 0 \/ r > n THEN 0
    ELSE IF r = 0 THEN 1
    ELSE (Binom(n, r - 1) * (n - r + 1)) \div r

RECURSIVE HyperSum(_, _, _, _)
HyperSum(q, N, m, k) ==
    IF q < 0 THEN 0
    ELSE Binom(m, q) * Binom(N - m, k - q) + HyperSum(q - 1, N, m, k)

CdfAtMost(q, N, m, k, alpha) ==
    alpha.d * HyperSum(q, N, m, k) <= alpha.n * Binom(N, k)

\* the while loop of min_draws_for_cdf_at_most_q; ans = -1 stands for None
RECURSIVE DrawSearch(_, _, _, _, _, _, _)
DrawSearch(lo, hi, ans, q, alpha, N, m) ==
    IF ~(lo <= hi) THEN ans
    ELSE LET mid == lo + (hi - lo) \div 2
         IN  IF CdfAtMost(q, N, m, mid, alpha)
             THEN (IF mid = 0 THEN mid
                   ELSE DrawSearch(lo, mid - 1, mid, q, alpha, N, m))
             ELSE DrawSearch(mid + 1, hi, ans, q, alpha, N, m)

min_draws_for_cdf_at_most_q(q, alpha, m, n_black, k_max) ==
    LET n_total == m + n_black
        ans     == DrawSearch(0, Min(k_max, n_total), -1, q, alpha, n_total, m)
    IN  IF n_total = 0 THEN Calculation("population size is zero")
        ELSE Ok(IF ans = -1 THEN Min(k_max, n_total) ELSE ans)

calculate_n_hyper(num_errors, alpha, tolerable_error, account_value) ==
    IF ~(IsFin(alpha) /\ FGt(alpha, Zero) /\ FLt(alpha, Whole(1)))
    THEN InvalidInput("alpha must be in (0,1)")
    ELSE IF ~(IsFin(tolerable_error) /\ IsFin(account_value) /\ FGt(account_value, Zero))
    THEN InvalidInput("tolerable_error and account_value must be finite and > 0")
    ELSE LET max_error_rate == FDiv(tolerable_error, account_value)
             m       == round_to_u64(FMul(max_error_rate, account_value))
             n_black == round_to_u64(FMul(FSub(Whole(1), max_error_rate), account_value))
             k_upper == Min(n_black + num_errors, round_to_u64(account_value))
         IN  min_draws_for_cdf_at_most_q(num_errors, alpha, m, n_black, k_upper)

(***************************************************************************)
(* Gamma quantiles (statrs): Gamma(shape, 1).inverse_cdf(p).  The quantile *)
(* of shape 1 is -ln(1 - p), tabulated to four decimals (rounded up).  The *)
(* fixed point of mus_factor for a positive ratio is a value above it that *)
(* the model leaves open, as is the convergence of the iteration.          *)
(***************************************************************************)
GammaShape1Quantile(p) ==
    CASE p = Fin(1, 2)  -> Fin(6932, 10000)
      [] p = Fin(4, 5)  -> Fin(16095, 10000)
      [] p = Fin(9, 10) -> Fin(23026, 10000)

mus_factor(confidence_level, pct_ratio) ==
    IF ~(FGt(confidence_level, Zero) /\ FLt(confidence_level, Whole(1)))
    THEN {InvalidInput("confidence_level must be in (0,1)")}
    ELSE IF ~(FGe(pct_ratio, Zero) /\ FLt(pct_ratio, Whole(1)))
    THEN {InvalidInput("pct_ratio must be in [0,1)")}
    ELSE IF FEq(pct_ratio, Zero)
    THEN {Ok(GammaShape1Quantile(confidence_level))}
    ELSE {Ok(FAdd(GammaShape1Quantile(confidence_level), d)) : d \in {Fin(1, 2), Whole(2)}}
         \cup {Calculation("MUS.factor iteration did not converge")}

mus_calc_n_conservative(confidence_level, tolerable_error, expected_error, book_value) ==
    LET pct_ratio == FDiv(expected_error, tolerable_error)
        NOf(f) ==
            LET conf_factor == FDiv(FCeil(FMul(f, Whole(100))), Whole(100))
            IN  AsU64(FCeil(FMul(FDiv(conf_factor, tolerable_error), book_value)))
    IN  {IF r.tag = "Ok" THEN Ok(NOf(r.v)) ELSE r : r \in mus_factor(confidence_level, pct_ratio)}

(***************************************************************************)
(* mus_planning                                                            *)
(***************************************************************************)
\* lines 217-220: percentages are resolved against the book value
ResolveOpts(opts, book_value) ==
    IF opts.errors_as_pct /\ IsFin(opts.tolerable_error) /\ IsFin(opts.expected_error)
    THEN [opts EXCEPT !.tolerable_error = FMul(opts.tolerable_error, book_value),
                      !.expected_error = FMul(opts.expected_error, book_value)]
    ELSE opts

\* CheckPreconditions with the floor compared by > instead of >=
CheckPreconditionsLoose(book_values, opts) ==
    LET book_value == sum_nonneg(book_values)
        o == ResolveOpts(opts, book_value)
    IN  IF book_values = <<>>
        THEN InvalidInput("data must contain at least one item")
        ELSE IF ~(FGt(opts.confidence_level, Zero) /\ FLt(opts.confidence_level, Whole(1)))
        THEN InvalidInput("confidence.level must be in (0,1)")
        ELSE IF ~(IsFin(o.tolerable_error) /\ FGt(o.tolerable_error, Zero))
        THEN InvalidInput("tolerable.error must be > 0")
        ELSE IF ~(IsFin(o.expected_error) /\ FGe(o.expected_error, Zero))
        THEN InvalidInput("expected.error must be >= 0")
        ELSE IF opts.n_min > Len(book_values)
        THEN InvalidInput("n.min must be < number of items")
        ELSE Ok(o)

\* lines 194-229: the precondition checks, in the order of the code; Ok(o) carries
\* the options after percentage resolution
CheckPreconditions(book_values, opts) ==
    LET book_value == sum_nonneg(book_values)
        o == ResolveOpts(opts, book_value)
    IN  IF book_values = <<>>
        THEN InvalidInput("data must contain at least one item")
        ELSE IF ~(FGt(opts.confidence_level, Zero) /\ FLt(opts.confidence_level, Whole(1)))
        THEN InvalidInput("confidence.level must be in (0,1)")
        ELSE IF ~(IsFin(o.tolerable_error) /\ FGt(o.tolerable_error, Zero))
        THEN InvalidInput("tolerable.error must be > 0")
        ELSE IF ~(IsFin(o.expected_error) /\ FGe(o.expected_error, Zero))
        THEN InvalidInput("expected.error must be >= 0")
        ELSE IF opts.n_min >= Len(book_values)
        THEN InvalidInput("n.min must be < number of items")
        ELSE Ok(o)

\* lines 200-212 and 230-233: the advisory messages written before the search
ValueWarnings(book_values) ==
    {w \in {"nonfinite", "zero", "negative"} :
        \E j \in 1..Len(book_values) :
            LET v == book_values[j]
            IN  \/ w = "nonfinite" /\ ~is_finite_non_nan(v)
                \/ w = "zero" /\ FEq(v, Zero)
                \/ w = "negative" /\ FLt(v, Zero)}

\* (te / bv) * (1 - cl) * sqrt(te - ee) < 0.07, squared on both sides
TooLarge(o, book_value) ==
    LET a == FMul(FDiv(o.tolerable_error, book_value), FSub(Whole(1), o.confidence_level))
        d == FSub(o.tolerable_error, o.expected_error)
    IN  /\ FGe(d, Zero)
        /\ \/ FLt(a, Zero) /\ FGt(d, Zero)
           \/ FGe(a, Zero) /\ FLt(FMul(FMul(a, a), d), Fin(49, 10000))

NHyper(q, o, book_value) ==
    calculate_n_hyper(q, FSub(Whole(1), o.confidence_level), o.tolerable_error, book_value)

\* a decided n_optimal with the advisory messages written on the way
NOpt(n, warn) == [tag |-> "N", n |-> n, warn |-> warn]

\* PlanBranch with tolerable_error > book_value as its first test
PlanBranchStrict(book_values, o, book_value) ==
    LET num_items == Len(book_values)
        c0 == NHyper(0, o, book_value)
        cN == NHyper(num_items, o, book_value)
    IN  IF FGt(o.tolerable_error, book_value) THEN NOpt(0, {"no_sampling"})
        ELSE IF c0.tag = "Err" THEN c0
        ELSE IF c0.v < 1
        THEN Calculation("Undefined: if 0 errors occur, sample size must be positive")
        ELSE IF cN.tag = "Err" THEN cN
        ELSE IF FGt(FSub(FDiv(FMul(Whole(cN.v), o.expected_error), book_value),
                         Whole(num_items)), Zero)
        THEN NOpt(num_items, {"audit_everything"})
        ELSE IF FEq(o.expected_error, Zero) THEN NOpt(c0.v, {})
        ELSE [tag |-> "Loop"]

\* PlanBranch without the audit-everything guard of lines 240-244
PlanBranchNoGuard(book_values, o, book_value) ==
    LET num_items == Len(book_values)
        c0 == NHyper(0, o, book_value)
        cN == NHyper(num_items, o, book_value)
    IN  IF FGe(o.tolerable_error, book_value) THEN NOpt(0, {"no_sampling"})
        ELSE IF c0.tag = "Err" THEN c0
        ELSE IF c0.v < 1
        THEN Calculation("Undefined: if 0 errors occur, sample size must be positive")
        ELSE IF cN.tag = "Err" THEN cN
        ELSE IF FEq(o.expected_error, Zero) THEN NOpt(c0.v, {})
        ELSE [tag |-> "Loop"]

\* lines 235-249: the branches taken before the search over q: a decided
\* n_optimal, an error, or [tag "Loop"] to enter the loop of line 252
PlanBranch(book_values, o, book_value) ==
    LET num_items == Len(book_values)
        c0 == NHyper(0, o, book_value)
        cN == NHyper(num_items, o, book_value)
    IN  IF FGe(o.tolerable_error, book_value) THEN NOpt(0, {"no_sampling"})
        ELSE IF c0.tag = "Err" THEN c0
        ELSE IF c0.v < 1
        THEN Calculation("Undefined: if 0 errors occur, sample size must be positive")
        ELSE IF cN.tag = "Err" THEN cN
        ELSE IF FGt(FSub(FDiv(FMul(Whole(cN.v), o.expected_error), book_value),
                         Whole(num_items)), Zero)
        THEN NOpt(num_items, {"audit_everything"})
        ELSE IF FEq(o.expected_error, Zero) THEN NOpt(c0.v, {})
        ELSE [tag |-> "Loop"]

\* LoopExit that leaves the search once the ratio exceeds i
LoopExitExceeds(i, n_i, o, book_value) ==
    FGt(FDiv(FMul(Whole(n_i), o.expected_error), book_value), Whole(i))

\* line 254: the exit test of the search at q = i
LoopExit(i, n_i, o, book_value) ==
    FLe(FDiv(FMul(Whole(n_i), o.expected_error), book_value), Whole(i))

\* lines 257-277: the optimal size once the search stopped at q = i
Interpolate(i, num_items, o, book_value) ==
    LET c0 == NHyper(0, o, book_value)
        ca == NHyper(i - 1, o, book_value)
        cb == NHyper(i, o, book_value)
        ni == Whole(ca.v)
        nip1 == Whole(cb.v)
        denom == FSub(FDiv(Whole(1), FSub(nip1, ni)), FDiv(o.expected_error, book_value))
        n_opt_f == FCeil(FDiv(FSub(FDiv(ni, FSub(nip1, ni)), Whole(i - 1)), denom))
        n_opt == IF FLt(n_opt_f, Zero) THEN 0 ELSE AsU64(n_opt_f)
    IN  IF i = 0 THEN (IF c0.tag = "Err" THEN c0 ELSE NOpt(c0.v, {}))
        ELSE IF ca.tag = "Err" THEN ca
        ELSE IF cb.tag = "Err" THEN cb
        ELSE IF FLe(denom, Zero)
        THEN Calculation("denominator non-positive in interpolation")
        ELSE IF n_opt > num_items THEN NOpt(num_items, {"audit_everything"})
        ELSE IF n_opt = cb.v + 1 THEN NOpt(Max(n_opt - 1, 0), {})
        ELSE IF n_opt < ca.v \/ n_opt > cb.v
        THEN Calculation("n.optimal not plausible")
        ELSE NOpt(n_opt, {})

\* MakePlan without the guard of line 287
MakePlanUnguarded(book_values, o, book_value, n_final) ==
    [data |-> book_values,
     confidence_level |-> o.confidence_level,
     tolerable_error |-> o.tolerable_error,
     expected_error |-> o.expected_error,
     book_value |-> book_value,
     n |-> n_final,
     high_value_threshold |-> FDiv(book_value, Whole(n_final)),
     tolerable_taintings |->
        IF FEq(book_value, Zero) THEN Zero
        ELSE FMul(FDiv(o.expected_error, book_value), Whole(n_final)),
     combined |-> o.combined]

NotNegative(v) == ~FLt(v, Zero)

\* MakePlan that leaves the negative values out of data
MakePlanNoNegatives(book_values, o, book_value, n_final) ==
    [data |-> SelectSeq(book_values, NotNegative),
     confidence_level |-> o.confidence_level,
     tolerable_error |-> o.tolerable_error,
     expected_error |-> o.expected_error,
     book_value |-> book_value,
     n |-> n_final,
     high_value_threshold |->
        IF n_final = 0 THEN PInf ELSE FDiv(book_value, Whole(n_final)),
     tolerable_taintings |->
        IF FEq(book_value, Zero) THEN Zero
        ELSE FMul(FDiv(o.expected_error, book_value), Whole(n_final)),
     combined |-> o.combined]

\* lines 290-301
MakePlan(book_values, o, book_value, n_final) ==
    [data |-> book_values,
     confidence_level |-> o.confidence_level,
     tolerable_error |-> o.tolerable_error,
     expected_error |-> o.expected_error,
     book_value |-> book_value,
     n |-> n_final,
     high_value_threshold |->
        IF n_final = 0 THEN PInf ELSE FDiv(book_value, Whole(n_final)),
     tolerable_taintings |->
        IF FEq(book_value, Zero) THEN Zero
        ELSE FMul(FDiv(o.expected_error, book_value), Whole(n_final)),
     combined |-> o.combined]

\* PlanFinish without the n_min floor
PlanFinishNoFloor(book_values, o, book_value, n_optimal) ==
    LET n_floor == n_optimal
    IN  IF o.conservative
        THEN {IF c.tag = "Err" THEN c
              ELSE Ok(MakePlan(book_values, o, book_value, Max(n_floor, c.v))) :
                 c \in mus_calc_n_conservative(o.confidence_level, o.tolerable_error,
                                               o.expected_error, book_value)}
        ELSE {Ok(MakePlan(book_values, o, book_value, n_floor))}

\* PlanFinish with the floor taken as a minimum
PlanFinishMin(book_values, o, book_value, n_optimal) ==
    LET n_floor == Min(n_optimal, o.n_min)
    IN  IF o.conservative
        THEN {IF c.tag = "Err" THEN c
              ELSE Ok(MakePlan(book_values, o, book_value, Max(n_floor, c.v))) :
                 c \in mus_calc_n_conservative(o.confidence_level, o.tolerable_error,
                                               o.expected_error, book_value)}
        ELSE {Ok(MakePlan(book_values, o, book_value, n_floor))}

\* lines 281-301: the results mus_planning can return once n_optimal is known
PlanFinish(book_values, o, book_value, n_optimal) ==
    LET n_floor == Max(n_optimal, o.n_min)
    IN  IF o.conservative
        THEN {IF c.tag = "Err" THEN c
              ELSE Ok(MakePlan(book_values, o, book_value, Max(n_floor, c.v))) :
                 c \in mus_calc_n_conservative(o.confidence_level, o.tolerable_error,
                                               o.expected_error, book_value)}
        ELSE {Ok(MakePlan(book_values, o, book_value, n_floor))}

\* the loop of lines 252-256 followed by lines 257-277, from q = i
RECURSIVE SearchFrom(_, _, _, _)
SearchFrom(i, num_items, o, book_value) ==
    LET n_i == NHyper(i, o, book_value)
    IN  IF n_i.tag = "Err" THEN n_i
        ELSE IF LoopExit(i, n_i.v, o, book_value)
        THEN Interpolate(i, num_items, o, book_value)
        ELSE SearchFrom(i + 1, num_items, o, book_value)

\* lines 193-302 as a whole: the results the call can return
mus_planning(values, opts) ==
    LET pre == CheckPreconditions(values, opts)
        bv == sum_nonneg(values)
        br == PlanBranch(values, pre.v, bv)
        n_optimal == IF br.tag = "Loop" THEN SearchFrom(0, Len(values), pre.v, bv) ELSE br
    IN  IF pre.tag = "Err" THEN {pre}
        ELSE IF n_optimal.tag = "Err" THEN {n_optimal}
        ELSE PlanFinish(values, pre.v, bv, n_optimal.n)

(***************************************************************************)
(* mus_extraction                                                          *)
(***************************************************************************)
None == [tag |-> "None"]

Some(v) == [tag |-> "Some", v |-> v]

Panic(msg) == [tag |-> "Panic", msg |-> msg]

\* HighOf with a strict comparison
RECURSIVE HighOfStrict(_, _)
HighOfStrict(data, threshold) ==
    IF data = <<>> THEN <<>>
    ELSE (IF FGt(Head(data), threshold) THEN <<Head(data)>> ELSE <<>>)
         \o HighOfStrict(Tail(data), threshold)

\* lines 311-313 and 327-329: the values >= threshold, in the order of the data
RECURSIVE HighOf(_, _)
HighOf(data, threshold) ==
    IF data = <<>> THEN <<>>
    ELSE (IF FGe(Head(data), threshold) THEN <<Head(data)>> ELSE <<>>)
         \o HighOf(Tail(data), threshold)

\* the values that are not >= threshold, in the order of the data
RECURSIVE LowOf(_, _)
LowOf(data, threshold) ==
    IF data = <<>> THEN <<>>
    ELSE (IF FGe(Head(data), threshold) THEN <<>> ELSE <<Head(data)>>)
         \o LowOf(Tail(data), threshold)

\* StdRng::seed_from_u64(seed) followed by random_range(0.0..=interval): a
\* fixed fraction of the interval for each seed
UnitDraw(seed) == Fin(2 * seed + 1, 2 * (MaxSeed + 1))

RandomRange(seed, interval) ==
    IF ~FLe(Zero, interval) THEN Panic("cannot sample empty range")
    ELSE IF ~IsFin(interval) THEN Panic("non-finite range")
    ELSE Ok(FMul(interval, UnitDraw(seed)))

TimeSeeds == 0..MaxSeed

\* StartPoints that accepts every explicit start point
StartPointsUnchecked(opts, interval) ==
    IF opts.start_point.tag = "Some"
    THEN {Ok(opts.start_point.v)}
    ELSE IF opts.seed.tag = "Some"
    THEN {RandomRange(opts.seed.v, interval)}
    ELSE {RandomRange(t, interval) : t \in TimeSeeds}

\* StartPoints with the seed always taken from the clock
StartPointsClockSeed(opts, interval) ==
    IF opts.start_point.tag = "Some"
    THEN (IF ~(FGe(opts.start_point.v, Zero) /\ FLe(opts.start_point.v, interval))
          THEN {InvalidInput("start.point must be in [0, interval]")}
          ELSE {Ok(opts.start_point.v)})
    ELSE {RandomRange(t, interval) : t \in TimeSeeds}

\* lines 334-352: the start points the call can use; the clock supplies the
\* seed when the options carry neither a start point nor a seed
StartPoints(opts, interval) ==
    IF opts.start_point.tag = "Some"
    THEN (IF ~(FGe(opts.start_point.v, Zero) /\ FLe(opts.start_point.v, interval))
          THEN {InvalidInput("start.point must be in [0, interval]")}
          ELSE {Ok(opts.start_point.v)})
    ELSE IF opts.seed.tag = "Some"
    THEN {RandomRange(opts.seed.v, interval)}
    ELSE {RandomRange(t, interval) : t \in TimeSeeds}

\* lines 356-360: the hit positions j = 0..=draws_needed
SamplingUnits(start_point, interval, draws_needed) ==
    LET grid_step == FDiv(FRound(FMul(interval, Whole(100))), Whole(100))
        Unit(j) ==
            LET x == FRound(FAdd(start_point, FMul(Whole(j), grid_step)))
            IN  IF FLe(x, Zero) THEN 0 ELSE AsU64(x)
    IN  [j \in 1..(draws_needed + 1) |-> Unit(j - 1)]

\* u64::saturating_add
SatAdd(a, b) == IF b >= U64Max - a THEN U64Max ELSE a + b

\* lines 363-369: cumulative monetary units of the sampling population
RECURSIVE CumFrom(_, _)
CumFrom(pop, running) ==
    IF pop = <<>> THEN <<>>
    ELSE LET r == SatAdd(running, round_to_u64(Head(pop)))
         IN  <<r>> \o CumFrom(Tail(pop), r)

CumOf(pop) == CumFrom(pop, 0)

\* Retain that drops a hit equal to the total
RECURSIVE RetainBelow(_, _)
RetainBelow(units, pop_sum_u) ==
    IF units = <<>> THEN <<>>
    ELSE (IF Head(units) < pop_sum_u THEN <<Head(units)>> ELSE <<>>)
         \o RetainBelow(Tail(units), pop_sum_u)

\* line 371
RECURSIVE Retain(_, _)
Retain(units, pop_sum_u) ==
    IF units = <<>> THEN <<>>
    ELSE (IF Head(units) <= pop_sum_u THEN <<Head(units)>> ELSE <<>>)
         \o Retain(Tail(units), pop_sum_u)

\* lines 376-382: the binary search; lo, hi and the result are 0-based
RECURSIVE FindInterval(_, _, _, _)
FindInterval(lo, hi, cum, u) ==
    IF ~(lo < hi) THEN hi + 1
    ELSE LET mid == lo + (hi - lo) \div 2 + 1
         IN  IF cum[mid + 1] < u
             THEN FindInterval(mid, hi, cum, u)
             ELSE FindInterval(lo, mid - 1, cum, u)

\* Pick that reports 0 as the cumulative sum before every item
RECURSIVE PickFromZero(_, _, _)
PickFromZero(units, pop, cum) ==
    IF units = <<>> THEN <<>>
    ELSE LET u == Head(units)
             idx == FindInterval(-1, Len(cum) - 1, cum, u)
         IN  (IF idx >= Len(cum) THEN <<>>
              ELSE <<[book_value |-> pop[idx + 1],
                      mus_hit |-> u,
                      cum_before |-> 0,
                      cum_after |-> cum[idx + 1]]>>)
             \o PickFromZero(Tail(units), pop, cum)

\* lines 375-387
RECURSIVE Pick(_, _, _)
Pick(units, pop, cum) ==
    IF units = <<>> THEN <<>>
    ELSE LET u == Head(units)
             idx == FindInterval(-1, Len(cum) - 1, cum, u)
         IN  (IF idx >= Len(cum) THEN <<>>
              ELSE <<[book_value |-> pop[idx + 1],
                      mus_hit |-> u,
                      cum_before |-> IF idx = 0 THEN 0 ELSE cum[idx],
                      cum_after |-> cum[idx + 1]]>>)
             \o Pick(Tail(units), pop, cum)

\* Select that reports the interval of the grid as the sampling interval
SelectKeepInterval(plan, opts, interval, high, pop, start_point) ==
    LET draws_needed == IF plan.n >= Len(high) THEN plan.n - Len(high) ELSE 0
        cum == CumOf(pop)
        pop_sum_u == IF cum = <<>> THEN 0 ELSE cum[Len(cum)]
        units == Retain(SamplingUnits(start_point, interval, draws_needed), pop_sum_u)
        sample == Pick(units, pop, cum)
        pop_sum == FSum(pop)
    IN  [plan |-> plan,
         start_point |-> start_point,
         seed |-> opts.seed,
         obey_n_as_min |-> opts.obey_n_as_min,
         high_values |-> high,
         sample_population |-> [j \in 1..Len(pop) |-> <<pop[j], cum[j]>>],
         sampling_interval |-> interval,
         sample |-> sample,
         extensions |-> 0,
         n_qty |-> <<Len(sample)>>,
         combined |-> opts.combined]

\* lines 354-411: selection and the returned Extraction
Select(plan, opts, interval, high, pop, start_point) ==
    LET draws_needed == IF plan.n >= Len(high) THEN plan.n - Len(high) ELSE 0
        cum == CumOf(pop)
        pop_sum_u == IF cum = <<>> THEN 0 ELSE cum[Len(cum)]
        units == Retain(SamplingUnits(start_point, interval, draws_needed), pop_sum_u)
        sample == Pick(units, pop, cum)
        pop_sum == FSum(pop)
    IN  [plan |-> plan,
         start_point |-> start_point,
         seed |-> opts.seed,
         obey_n_as_min |-> opts.obey_n_as_min,
         high_values |-> high,
         sample_population |-> [j \in 1..Len(pop) |-> <<pop[j], cum[j]>>],
         sampling_interval |->
            IF Len(sample) = 0 THEN PInf ELSE FDiv(pop_sum, Whole(Len(sample))),
         sample |-> sample,
         extensions |-> 0,
         n_qty |-> <<Len(sample)>>,
         combined |-> opts.combined]

\* lines 334-411: what the call returns once the partition is final
ExtractFinish(plan, opts, interval, high, pop) ==
    {IF sp.tag = "Ok" THEN Ok(Select(plan, opts, interval, high, pop, sp.v)) ELSE sp :
        sp \in StartPoints(opts, interval)}

(***************************************************************************)
(* sampling.rs: the interval-threshold PPS selection                       *)
(***************************************************************************)
\* rng().random_range(0.0..interval): the offsets drawn, as fractions of the
\* interval; the range is half-open
PpsOffsets == {Zero, Fin(1, 3), Fin(1, 2), Fin(3, 4)}

\* sampling.rs line 249: the n thresholds start + i * interval, i = 0..n-1
Thresholds(start, step, n) == [j \in 1..n |-> FAdd(start, FMul(Whole(j - 1), step))]

RECURSIVE InsertSorted(_, _)
InsertSorted(x, s) ==
    IF s = <<>> THEN <<x>>
    ELSE IF FLt(x, Head(s)) THEN <<x>> \o s
    ELSE <<Head(s)>> \o InsertSorted(x, Tail(s))

\* sampling.rs line 250: the stable ascending sort of the thresholds
RECURSIVE SortThresholds(_)
SortThresholds(s) ==
    IF s = <<>> THEN <<>>
    ELSE InsertSorted(Head(s), SortThresholds(Tail(s)))

\* sampling.rs lines 258-263: the thresholds from position t_idx (0-based) that
\* are <= cum; item i is pushed once for each of them that is > prev
RECURSIVE Consume(_, _, _, _, _)
Consume(thresholds, t_idx, prev, cum, i) ==
    IF t_idx < Len(thresholds) /\ FLe(thresholds[t_idx + 1], cum)
    THEN LET rest == Consume(thresholds, t_idx + 1, prev, cum, i)
         IN  [idx |-> (IF FGt(thresholds[t_idx + 1], prev) THEN <<i>> ELSE <<>>) \o rest.idx,
              t |-> rest.t]
    ELSE [idx |-> <<>>, t |-> t_idx]

\* sampling.rs lines 252-265: the sweep over the amounts from item i (0-based)
RECURSIVE Sweep(_, _, _, _, _)
Sweep(amounts, thresholds, i, cum, t_idx) ==
    IF i >= Len(amounts) THEN <<>>
    ELSE LET c == FAdd(cum, FMax(amounts[i + 1], Zero))
             hit == Consume(thresholds, t_idx, cum, c, i)
         IN  hit.idx \o (IF hit.t >= Len(thresholds) THEN <<>>
                         ELSE Sweep(amounts, thresholds, i + 1, c, hit.t))

\* sampling.rs lines 242-267: the index sequences the call can return, one for
\* each offset the generator can draw
pps_systematic_indices(amounts, n) ==
    IF n = 0 \/ amounts = <<>> THEN {Ok(<<>>)}
    ELSE LET total == FSum(amounts)
             step == FDiv(total, Whole(n))
         IN  IF FLe(total, Zero) THEN {Ok(<<>>)}
             ELSE IF ~FLt(Zero, step) THEN {Panic("cannot sample empty range")}
             ELSE IF ~IsFin(step) THEN {Panic("non-finite range")}
             ELSE {Ok(Sweep(amounts,
                            SortThresholds(Thresholds(FMul(step, f), step, n)),
                            0, Zero, 0)) : f \in PpsOffsets}

\* UniqueIdxs that keeps every hit
UniqueIdxsKeepAll(idxs, seen) ==
    idxs

\* sampling.rs lines 355-362: the first occurrence of every index, in order
RECURSIVE UniqueIdxs(_, _)
UniqueIdxs(idxs, seen) ==
    IF idxs = <<>> THEN <<>>
    ELSE IF Head(idxs) \in seen THEN UniqueIdxs(Tail(idxs), seen)
    ELSE <<Head(idxs)>> \o UniqueIdxs(Tail(idxs), seen \cup {Head(idxs)})

(***************************************************************************)
(* Inputs of the model.                                                    *)
(***************************************************************************)
BookValueSet == {NaN, PInf, NInf, Whole(-2), Zero, Whole(1), Whole(3)}

RECURSIVE SeqsUpTo(_, _)
SeqsUpTo(S, n) ==
    IF n = 0 THEN {<<>>}
    ELSE LET shorter == SeqsUpTo(S, n - 1)
         IN  shorter \cup {Append(s, x) : s \in {t \in shorter : Len(t) = n - 1}, x \in S}

Populations == SeqsUpTo(BookValueSet, MaxItems)

ConfidenceSet == {Zero, Fin(1, 2), Fin(4, 5), Whole(1)}

TolerableSet == {NaN, Zero, Fin(1, 2), Whole(2)}

ExpectedSet == {NaN, Whole(-1), Zero, Fin(1, 2)}

PlanningOptions ==
    [confidence_level : ConfidenceSet,
     tolerable_error : TolerableSet,
     expected_error : ExpectedSet,
     n_min : 0..MaxNMin,
     errors_as_pct : BOOLEAN,
     conservative : BOOLEAN,
     combined : {FALSE}]

StartPointSet == {None, Some(Zero), Some(Whole(1))}

SeedSet == {None} \cup {Some(t) : t \in 0..MaxSeed}

ExtractionOptions ==
    [start_point : StartPointSet,
     seed : SeedSet,
     obey_n_as_min : BOOLEAN,
     combined : {FALSE}]

\* lines 21-34
DefaultPlanningOptions ==
    [confidence_level |-> Fin(9, 10), tolerable_error |-> NaN,
     expected_error |-> NaN, n_min |-> 0, errors_as_pct |-> FALSE,
     conservative |-> FALSE, combined |-> FALSE]

(***************************************************************************)
(* State.                                                                  *)
(***************************************************************************)
VARIABLES
    pc,                \* "idle", "search" (loop of line 252), "planned",
                       \* "stabilize" (loop of line 317), "extracted"
    book_values,       \* argument of the current mus_planning call
    plan_opts,         \* argument of the current mus_planning call
    q,                 \* the loop variable i of line 251
    warnings,          \* advisory messages written by the current mus_planning call
    plan_result,       \* what mus_planning returned
    ext_opts,          \* argument of the current mus_extraction call
    interval,          \* local of mus_extraction
    high_values,       \* local of mus_extraction
    sample_population, \* local of mus_extraction
    ext_result,        \* what mus_extraction returned
    call_no,           \* 1, or 2 when the caller repeats the call with the same arguments
    first_result,      \* what the first of the two calls returned
    amounts,           \* argument of the current pps_systematic_indices call
    pps_n,             \* argument of the current pps_systematic_indices call
    pps_idxs,          \* what pps_systematic_indices returned
    pps_result,        \* the indices perform_mus_sampling_with_rules keeps
    draw_args,         \* arguments of the current min_draws_for_cdf_at_most_q call
    draw_lo,           \* local lo of min_draws_for_cdf_at_most_q
    draw_hi,           \* local hi of min_draws_for_cdf_at_most_q
    draw_ans,          \* local ans of min_draws_for_cdf_at_most_q
    draw_result        \* what min_draws_for_cdf_at_most_q returned

plan_vars == <<book_values, plan_opts, q, warnings, plan_result>>

ext_vars == <<ext_opts, interval, high_values, sample_population, ext_result,
              call_no, first_result>>

pps_vars == <<amounts, pps_n, pps_idxs, pps_result>>

draw_vars == <<draw_args, draw_lo, draw_hi, draw_ans, draw_result>>

vars == <<pc, book_values, plan_opts, q, warnings, plan_result, ext_opts, interval,
          high_values, sample_population, ext_result, call_no, first_result,
          amounts, pps_n, pps_idxs, pps_result,
          draw_args, draw_lo, draw_hi, draw_ans, draw_result>>

\* lines 58-62
DefaultExtractionOptions ==
    [start_point |-> None, seed |-> None, obey_n_as_min |-> FALSE, combined |-> FALSE]

NoExtraction ==
    /\ ext_opts = DefaultExtractionOptions
    /\ interval = Zero
    /\ high_values = <<>>
    /\ sample_population = <<>>
    /\ ext_result = None
    /\ call_no = 0
    /\ first_result = None

NoPpsCall ==
    /\ amounts = <<>>
    /\ pps_n = 0
    /\ pps_idxs = None
    /\ pps_result = None

NoDrawArgs == [q |-> 0, alpha |-> Zero, m |-> 0, n_black |-> 0, k_max |-> 0]

NoDrawCall ==
    /\ draw_args = NoDrawArgs
    /\ draw_lo = 0
    /\ draw_hi = 0
    /\ draw_ans = None
    /\ draw_result = None

Init ==
    /\ pc = "idle"
    /\ book_values = <<>>
    /\ plan_opts = DefaultPlanningOptions
    /\ q = 0
    /\ warnings = {}
    /\ plan_result = None
    /\ NoExtraction
    /\ NoPpsCall
    /\ NoDrawCall

\* mus_planning up to the search over q (lines 193-251)
PlanCall(values, opts) ==
    /\ book_values' = values
    /\ plan_opts' = opts
    /\ q' = 0
    /\ UNCHANGED ext_vars
    /\ UNCHANGED pps_vars
    /\ UNCHANGED draw_vars
    /\ LET pre == CheckPreconditions(values, opts)
           bv == sum_nonneg(values)
           br == PlanBranch(values, pre.v, bv)
           w0 == IF values = <<>> \/ ~(FGt(opts.confidence_level, Zero)
                                       /\ FLt(opts.confidence_level, Whole(1)))
                 THEN {} ELSE ValueWarnings(values)
       IN  IF pre.tag = "Err"
           THEN /\ plan_result' = pre
                /\ warnings' = w0
                /\ pc' = "planned"
           ELSE LET w1 == w0 \cup (IF TooLarge(pre.v, bv) THEN {"too_large"} ELSE {})
                IN  CASE br.tag = "Err" ->
                           /\ plan_result' = br
                           /\ warnings' = w1
                           /\ pc' = "planned"
                      [] br.tag = "N" ->
                           /\ plan_result' \in PlanFinish(values, pre.v, bv, br.n)
                           /\ warnings' = w1 \cup br.warn
                           /\ pc' = "planned"
                      [] br.tag = "Loop" ->
                           /\ plan_result' = None
                           /\ warnings' = w1
                           /\ pc' = "search"

\* one iteration of the loop of lines 252-256 and, on exit, lines 257-301
PlanSearchStep ==
    /\ pc = "search"
    /\ LET bv == sum_nonneg(book_values)
           o == ResolveOpts(plan_opts, bv)
           n_i == NHyper(q, o, bv)
           ip == Interpolate(q, Len(book_values), o, bv)
       IN  IF n_i.tag = "Err"
           THEN /\ plan_result' = n_i
                /\ pc' = "planned"
                /\ UNCHANGED <<q, warnings>>
           ELSE IF LoopExit(q, n_i.v, o, bv)
           THEN /\ pc' = "planned"
                /\ UNCHANGED q
                /\ IF ip.tag = "Err"
                   THEN plan_result' = ip /\ UNCHANGED warnings
                   ELSE /\ plan_result' \in PlanFinish(book_values, o, bv, ip.n)
                        /\ warnings' = warnings \cup ip.warn
           ELSE /\ q' = q + 1
                /\ UNCHANGED <<pc, plan_result, warnings>>
    /\ UNCHANGED <<book_values, plan_opts>>
    /\ UNCHANGED ext_vars
    /\ UNCHANGED pps_vars
    /\ UNCHANGED draw_vars

\* mus_extraction up to the stabilization loop (lines 304-316), and to its end
\* when obey_n_as_min is not set
ExtractBegin(plan, opts) ==
    IF plan.n = 0
    THEN /\ ext_result' = InvalidInput("plan.n must be > 0 for extraction")
         /\ pc' = "extracted"
         /\ interval' = Zero
         /\ high_values' = <<>>
         /\ sample_population' = <<>>
    ELSE LET high == HighOf(plan.data, plan.high_value_threshold)
             pop == LowOf(plan.data, plan.high_value_threshold)
         IN  /\ interval' = plan.high_value_threshold
             /\ high_values' = high
             /\ sample_population' = pop
             /\ IF opts.obey_n_as_min
                THEN /\ ext_result' = None
                     /\ pc' = "stabilize"
                ELSE /\ ext_result' \in
                            ExtractFinish(plan, opts, plan.high_value_threshold, high, pop)
                     /\ pc' = "extracted"

ExtractCall(opts) ==
    /\ ext_opts' = opts
    /\ call_no' = 1
    /\ first_result' = None
    /\ ExtractBegin(plan_result.v, opts)
    /\ UNCHANGED plan_vars
    /\ UNCHANGED pps_vars
    /\ UNCHANGED draw_vars

\* the caller repeats the call with the same plan and the same options
RepeatCall ==
    /\ pc = "extracted"
    /\ call_no = 1
    /\ call_no' = 2
    /\ first_result' = ext_result
    /\ ExtractBegin(plan_result.v, ext_opts)
    /\ UNCHANGED ext_opts
    /\ UNCHANGED plan_vars
    /\ UNCHANGED pps_vars
    /\ UNCHANGED draw_vars

\* StabilizeStep that re-partitions once and leaves the loop
StabilizeOnce ==
    /\ pc = "stabilize"
    /\ LET plan == plan_result.v
           pop_sum == FSum(sample_population)
           denom == plan.n - Len(high_values)
           new_interval == FDiv(pop_sum, Whole(denom))
           diff == FAbs(FSub(new_interval, interval))
       IN  IF denom <= 0
           THEN /\ ext_result' =
                      Calculation("no items left for sampling after removing high values")
                /\ pc' = "extracted"
                /\ UNCHANGED <<interval, high_values, sample_population>>
           ELSE IF FLe(diff, Zero)
           THEN /\ interval' = new_interval
                /\ ext_result' \in ExtractFinish(plan, ext_opts, new_interval,
                                                 high_values, sample_population)
                /\ pc' = "extracted"
                /\ UNCHANGED <<high_values, sample_population>>
           ELSE /\ interval' = new_interval
                /\ high_values' = HighOf(plan.data, new_interval)
                /\ sample_population' = LowOf(plan.data, new_interval)
                /\ ext_result' \in
                       ExtractFinish(plan, ext_opts, new_interval,
                                     HighOf(plan.data, new_interval),
                                     LowOf(plan.data, new_interval))
                /\ pc' = "extracted"
    /\ UNCHANGED <<ext_opts, call_no, first_result>>
    /\ UNCHANGED plan_vars
    /\ UNCHANGED pps_vars
    /\ UNCHANGED draw_vars

\* one iteration of the loop of lines 317-331 and, on exit, lines 334-411
StabilizeStep ==
    /\ pc = "stabilize"
    /\ LET plan == plan_result.v
           old_interval == interval
           pop_sum == FSum(sample_population)
           denom == plan.n - Len(high_values)
           new_interval == FDiv(pop_sum, Whole(denom))
           diff == FAbs(FSub(new_interval, old_interval))
       IN  IF denom <= 0
           THEN /\ ext_result' =
                      Calculation("no items left for sampling after removing high values")
                /\ pc' = "extracted"
                /\ UNCHANGED <<interval, high_values, sample_population>>
           ELSE IF FLe(diff, Zero)
           THEN /\ interval' = new_interval
                /\ ext_result' \in ExtractFinish(plan, ext_opts, new_interval,
                                                 high_values, sample_population)
                /\ pc' = "extracted"
                /\ UNCHANGED <<high_values, sample_population>>
           ELSE /\ interval' = new_interval
                /\ high_values' = HighOf(plan.data, new_interval)
                /\ sample_population' = LowOf(plan.data, new_interval)
                /\ IF FEq(diff, Zero)
                   THEN /\ ext_result' \in
                               ExtractFinish(plan, ext_opts, new_interval,
                                             HighOf(plan.data, new_interval),
                                             LowOf(plan.data, new_interval))
                        /\ pc' = "extracted"
                   ELSE UNCHANGED <<ext_result, pc>>
    /\ UNCHANGED <<ext_opts, call_no, first_result>>
    /\ UNCHANGED plan_vars
    /\ UNCHANGED pps_vars
    /\ UNCHANGED draw_vars

\* the caller drops the results and is ready for the next call
Reset ==
    /\ pc \in {"planned", "extracted"}
    /\ pc' = "idle"
    /\ book_values' = <<>>
    /\ plan_opts' = DefaultPlanningOptions
    /\ q' = 0
    /\ warnings' = {}
    /\ plan_result' = None
    /\ ext_opts' = DefaultExtractionOptions
    /\ interval' = Zero
    /\ high_values' = <<>>
    /\ sample_population' = <<>>
    /\ ext_result' = None
    /\ call_no' = 0
    /\ first_result' = None
    /\ UNCHANGED pps_vars
    /\ UNCHANGED draw_vars

Next ==
    \/ /\ pc = "idle"
       /\ \E values \in Populations, opts \in PlanningOptions : PlanCall(values, opts)
    \/ PlanSearchStep
    \/ /\ pc = "planned"
       /\ plan_result.tag = "Ok"
       /\ \E opts \in ExtractionOptions : ExtractCall(opts)
    \/ StabilizeStep
    \/ RepeatCall
    \/ Reset

Spec == Init /\ [][Next]_vars

(***************************************************************************)
(* The interval-threshold PPS path on its own: the amounts and n of a call *)
(* of pps_systematic_indices, then the call, then the deduplication of     *)
(* perform_mus_sampling_with_rules.                                        *)
(***************************************************************************)
PpsSizes == 0..(MaxItems + 1)

InitPps ==
    /\ pc = "pps_call"
    /\ book_values = <<>>
    /\ plan_opts = DefaultPlanningOptions
    /\ q = 0
    /\ warnings = {}
    /\ plan_result = None
    /\ NoExtraction
    /\ amounts \in Populations
    /\ pps_n \in PpsSizes
    /\ pps_idxs = None
    /\ pps_result = None
    /\ NoDrawCall

\* sampling.rs line 351
PpsCall ==
    /\ pc = "pps_call"
    /\ pps_idxs' \in pps_systematic_indices(amounts, pps_n)
    /\ pc' = "pps_selected"
    /\ UNCHANGED <<amounts, pps_n, pps_result>>
    /\ UNCHANGED draw_vars
    /\ UNCHANGED plan_vars
    /\ UNCHANGED ext_vars

\* sampling.rs lines 352-362; a panic of the call is a panic of the caller
PpsDedup ==
    /\ pc = "pps_selected"
    /\ pps_result' = IF pps_idxs.tag = "Ok" THEN Ok(UniqueIdxs(pps_idxs.v, {}))
                     ELSE pps_idxs
    /\ pc' = "pps_done"
    /\ UNCHANGED <<amounts, pps_n, pps_idxs>>
    /\ UNCHANGED draw_vars
    /\ UNCHANGED plan_vars
    /\ UNCHANGED ext_vars

NextPps ==
    \/ PpsCall
    \/ PpsDedup

SpecPps == InitPps /\ [][NextPps]_vars

(***************************************************************************)
(* Populations whose monetary units exceed u64::MAX.  The tolerable error  *)
(* is a fraction >= 1 of the book value, so the planner takes the branch   *)
(* of line 235 and a Plan with n > 0 comes from n_min or from the          *)
(* conservative size.                                                      *)
(***************************************************************************)
LargeBookValueSet == {Whole(1), Whole(1600), Whole(2400)}

LargePopulations == SeqsUpTo(LargeBookValueSet, MaxItems)

NoSamplingOptions ==
    {o \in PlanningOptions : o.errors_as_pct /\ o.tolerable_error # Fin(1, 2)}

NextLarge ==
    \/ /\ pc = "idle"
       /\ \E values \in LargePopulations, opts \in NoSamplingOptions : PlanCall(values, opts)
    \/ /\ pc = "planned"
       /\ plan_result.tag = "Ok"
       /\ \E opts \in ExtractionOptions : ExtractCall(opts)
    \/ StabilizeStep
    \/ Reset

SpecLarge == Init /\ [][NextLarge]_vars

(***************************************************************************)
(* One call of the planner, with the loop of line 252 made fair:           *)
(* sequential code that can take its next iteration takes it.              *)
(***************************************************************************)
NextPlanning ==
    \/ /\ pc = "idle"
       /\ \E values \in Populations, opts \in PlanningOptions : PlanCall(values, opts)
    \/ PlanSearchStep

\* weak fairness of PlanSearchStep, which is enabled exactly when pc = "search"
\* and always changes pc or q
SearchFair == []<>(pc # "search") \/ []<><<PlanSearchStep>>_vars

SpecPlanning == Init /\ [][NextPlanning]_vars /\ SearchFair

(***************************************************************************)
(* One planner call followed by one extraction with obey_n_as_min, with    *)
(* the loop of line 317 made fair.  An iteration that reproduces the       *)
(* interval and the partition it started from leaves the state as it was,  *)
(* so the loop is then not able to move; StabilizeMoves is the enabling    *)
(* condition of a StabilizeStep that changes the state.                    *)
(***************************************************************************)
ObeyOptions == {o \in ExtractionOptions : o.obey_n_as_min}

StabilizeMoves ==
    /\ pc = "stabilize"
    /\ LET plan == plan_result.v
           denom == plan.n - Len(high_values)
           new_interval == FDiv(FSum(sample_population), Whole(denom))
           diff == FAbs(FSub(new_interval, interval))
       IN  \/ denom <= 0
           \/ FLe(diff, Zero)
           \/ new_interval # interval
           \/ HighOf(plan.data, new_interval) # high_values
           \/ LowOf(plan.data, new_interval) # sample_population

StabilizeFair == []<>(~StabilizeMoves) \/ []<><<StabilizeStep>>_vars

NextStabilize ==
    \/ /\ pc = "idle"
       /\ \E values \in Populations, opts \in PlanningOptions : PlanCall(values, opts)
    \/ PlanSearchStep
    \/ /\ pc = "planned"
       /\ plan_result.tag = "Ok"
       /\ \E opts \in ObeyOptions : ExtractCall(opts)
    \/ StabilizeStep

SpecStabilize == Init /\ [][NextStabilize]_vars /\ StabilizeFair

(***************************************************************************)
(* min_draws_for_cdf_at_most_q on its own: the arguments of a call, then   *)
(* the binary search of lines 119-134 one iteration at a time.             *)
(***************************************************************************)
DrawAlphaSet == {Fin(1, 20), Fin(1, 5), Fin(1, 2)}

DrawArgs ==
    [q : 0..2, alpha : DrawAlphaSet, m : 0..3, n_black : 0..4, k_max : 0..6]

InitDraws ==
    /\ pc = "draw_call"
    /\ book_values = <<>>
    /\ plan_opts = DefaultPlanningOptions
    /\ q = 0
    /\ warnings = {}
    /\ plan_result = None
    /\ NoExtraction
    /\ NoPpsCall
    /\ draw_args \in DrawArgs
    /\ draw_lo = 0
    /\ draw_hi = 0
    /\ draw_ans = None
    /\ draw_result = None

\* lines 113-121
DrawCall ==
    /\ pc = "draw_call"
    /\ LET n_total == draw_args.m + draw_args.n_black
       IN  IF n_total = 0
           THEN /\ draw_result' = Calculation("population size is zero")
                /\ pc' = "draw_done"
                /\ UNCHANGED <<draw_lo, draw_hi, draw_ans>>
           ELSE /\ draw_lo' = 0
                /\ draw_hi' = Min(draw_args.k_max, n_total)
                /\ draw_ans' = None
                /\ pc' = "draw_loop"
                /\ UNCHANGED draw_result
    /\ UNCHANGED draw_args
    /\ UNCHANGED <<plan_vars, ext_vars, pps_vars>>

\* DrawStep that keeps searching above a draw count that satisfies the test
DrawStepUpward ==
    /\ pc = "draw_loop"
    /\ draw_lo <= draw_hi
    /\ LET n_total == draw_args.m + draw_args.n_black
           mid == draw_lo + (draw_hi - draw_lo) \div 2
       IN  IF mid > n_total
           THEN /\ draw_result' = Calculation("hypergeometric new")
                /\ pc' = "draw_done"
                /\ UNCHANGED <<draw_lo, draw_hi, draw_ans>>
           ELSE IF CdfAtMost(draw_args.q, n_total, draw_args.m, mid, draw_args.alpha)
           THEN /\ draw_ans' = Some(mid)
                /\ draw_lo' = mid + 1
                /\ UNCHANGED <<pc, draw_hi, draw_result>>
           ELSE /\ draw_lo' = mid + 1
                /\ UNCHANGED <<pc, draw_hi, draw_ans, draw_result>>
    /\ UNCHANGED draw_args
    /\ UNCHANGED <<plan_vars, ext_vars, pps_vars>>

\* lines 122-134: one iteration of the while loop
DrawStep ==
    /\ pc = "draw_loop"
    /\ draw_lo <= draw_hi
    /\ LET n_total == draw_args.m + draw_args.n_black
           mid == draw_lo + (draw_hi - draw_lo) \div 2
       IN  IF mid > n_total
           THEN /\ draw_result' = Calculation("hypergeometric new")
                /\ pc' = "draw_done"
                /\ UNCHANGED <<draw_lo, draw_hi, draw_ans>>
           ELSE IF CdfAtMost(draw_args.q, n_total, draw_args.m, mid, draw_args.alpha)
           THEN /\ draw_ans' = Some(mid)
                /\ IF mid = 0
                   THEN pc' = "draw_exit" /\ UNCHANGED draw_hi
                   ELSE draw_hi' = mid - 1 /\ UNCHANGED pc
                /\ UNCHANGED <<draw_lo, draw_result>>
           ELSE /\ draw_lo' = mid + 1
                /\ UNCHANGED <<pc, draw_hi, draw_ans, draw_result>>
    /\ UNCHANGED draw_args
    /\ UNCHANGED <<plan_vars, ext_vars, pps_vars>>

\* line 135, reached when the loop condition fails or through the break
DrawReturn ==
    /\ \/ pc = "draw_exit"
       \/ pc = "draw_loop" /\ ~(draw_lo <= draw_hi)
    /\ draw_result' =
          Ok(IF draw_ans.tag = "Some" THEN draw_ans.v
             ELSE Min(draw_args.k_max, draw_args.m + draw_args.n_black))
    /\ pc' = "draw_done"
    /\ UNCHANGED <<draw_args, draw_lo, draw_hi, draw_ans>>
    /\ UNCHANGED <<plan_vars, ext_vars, pps_vars>>

NextDraws ==
    \/ DrawCall
    \/ DrawStep
    \/ DrawReturn

SpecDraws == InitDraws /\ [][NextDraws]_vars

(***************************************************************************)
(* Properties.                                                             *)
(***************************************************************************)
PlanDone == pc \in {"planned", "stabilize", "extracted"}

HasPlan == PlanDone /\ plan_result.tag = "Ok"

ExtDone == pc = "extracted"

ExtOk == ExtDone /\ ext_result.tag = "Ok"

SeqToSet(s) == {s[j] : j \in 1..Len(s)}

\* the call agrees with the functional form of the planner
PlanStepsAgree == PlanDone => plan_result \in mus_planning(book_values, plan_opts)

\* the plan mus_planning returned and the Extraction mus_extraction returned
ThePlan == plan_result.v

TheExt == ext_result.v

\* C1 as claimed: for every returned Plan, whatever n_min and conservative are,
\* n = 0 exactly when the resolved tolerable error is >= the total book value.
C1_AnyOptions ==
    HasPlan => ((ThePlan.n = 0) <=> FGe(ThePlan.tolerable_error, ThePlan.book_value))

\* C1 amended: for every Plan returned with n_min = 0 and conservative off,
\* n = 0 exactly when the resolved tolerable error is >= the total book value.
C1_DefaultFloor ==
    (HasPlan /\ plan_opts.n_min = 0 /\ ~plan_opts.conservative)
        => ((ThePlan.n = 0) <=> FGe(ThePlan.tolerable_error, ThePlan.book_value))

C1_Witness ==
    /\ HasPlan
    /\ plan_opts.n_min = 0
    /\ ~plan_opts.conservative
    /\ ThePlan.n > 0
    /\ FLt(ThePlan.tolerable_error, ThePlan.book_value)
    /\ Len(ThePlan.data) = MaxItems

\* C2: a successful extraction never selects more items than plan.n.
C2_SampleAtMostN == ExtOk => Len(TheExt.sample) <= ThePlan.n

C4_Threshold ==
    HasPlan =>
        /\ ThePlan.n > 0 =>
              /\ IsFin(ThePlan.high_value_threshold)
              /\ FMul(ThePlan.high_value_threshold, Whole(ThePlan.n)) = ThePlan.book_value
        /\ ThePlan.n = 0 => ThePlan.high_value_threshold = PInf

C4_Witness ==
    /\ HasPlan
    /\ ThePlan.n > 1
    /\ IsFin(ThePlan.high_value_threshold)
    /\ FGt(ThePlan.high_value_threshold, Zero)

\* C5: two extractions of the same Plan with the same options carrying an explicit
\* seed return the same start point and the same sequence of selected items.
C5_SeedDeterminism ==
    (ExtDone /\ call_no = 2 /\ ext_opts.seed.tag = "Some"
        /\ first_result.tag = "Ok" /\ ext_result.tag = "Ok")
        => /\ first_result.v.start_point = TheExt.start_point
           /\ first_result.v.sample = TheExt.sample

C5_Witness ==
    /\ ExtOk
    /\ call_no = 2
    /\ ext_opts.seed.tag = "Some"
    /\ ext_opts.start_point.tag = "None"
    /\ first_result.tag = "Ok"
    /\ FGt(TheExt.start_point, Zero)
    /\ Len(TheExt.sample) > 0

\* the five preconditions of the planner, on the arguments of the call
BookValueOfCall == sum_nonneg(book_values)

TolerableOfCall ==
    IF plan_opts.errors_as_pct
    THEN FMul(plan_opts.tolerable_error, BookValueOfCall)
    ELSE plan_opts.tolerable_error

ExpectedOfCall ==
    IF plan_opts.errors_as_pct
    THEN FMul(plan_opts.expected_error, BookValueOfCall)
    ELSE plan_opts.expected_error

PreNonEmpty == Len(book_values) > 0

PreConfidence ==
    FLt(Zero, plan_opts.confidence_level) /\ FLt(plan_opts.confidence_level, Whole(1))

PreTolerable == IsFin(TolerableOfCall) /\ FGt(TolerableOfCall, Zero)

PreExpected == IsFin(ExpectedOfCall) /\ FGe(ExpectedOfCall, Zero)

PreFloor == plan_opts.n_min < Len(book_values)

PreconditionsHold ==
    PreNonEmpty /\ PreConfidence /\ PreTolerable /\ PreExpected /\ PreFloor

PreconditionErrors ==
    {InvalidInput("data must contain at least one item"),
     InvalidInput("confidence.level must be in (0,1)"),
     InvalidInput("tolerable.error must be > 0"),
     InvalidInput("expected.error must be >= 0"),
     InvalidInput("n.min must be < number of items")}

\* C6: a call that violates one of the five preconditions returns InvalidInput and
\* no Plan; a call that satisfies all five returns none of the five errors.
C6_Preconditions ==
    PlanDone =>
        /\ ~PreconditionsHold =>
              plan_result.tag = "Err" /\ plan_result.kind = "InvalidInput"
        /\ PreconditionsHold => plan_result \notin PreconditionErrors
        /\ ~PreNonEmpty => plan_result = InvalidInput("data must contain at least one item")

C6_Witness ==
    /\ PlanDone
    /\ PreNonEmpty /\ PreConfidence /\ PreTolerable /\ PreExpected
    /\ ~PreFloor
    /\ plan_result = InvalidInput("n.min must be < number of items")

\* the population with every non-finite, zero or negative value replaced by 0
ZeroReplaced(values) ==
    [j \in 1..Len(values) |->
        IF IsFin(values[j]) /\ FGt(values[j], Zero) THEN values[j] ELSE Zero]

\* a result without the copy of the population it carries
WithoutData(r) ==
    IF r.tag = "Ok" THEN Ok([r.v EXCEPT !.data = <<>>]) ELSE r

\* C7: non-finite, zero and negative book values never make the planner reject the
\* call: it fails only if it can fail for the population with those values
\* replaced by 0; they add nothing to book_value, and a returned Plan is, but for
\* its copy of the population, a Plan returned for that population.
C7_ValuesCountAsZero ==
    pc = "planned" =>
        LET zeroed == mus_planning(ZeroReplaced(book_values), plan_opts)
        IN  /\ plan_result.tag = "Err" => \E r \in zeroed : r.tag = "Err"
            /\ plan_result.tag = "Ok" =>
                  /\ ThePlan.book_value = FSum(ZeroReplaced(book_values))
                  /\ WithoutData(plan_result) \in {WithoutData(r) : r \in zeroed}

\* C8: no selected item has a book value <= 0.
C8_NoNonPositiveSelected ==
    ExtOk => \A j \in 1..Len(TheExt.sample) : ~FLe(TheExt.sample[j].book_value, Zero)

\* C9: every call returns a result or a MusError; none aborts abnormally.
C9_NoPanic ==
    /\ PlanDone => plan_result.tag \in {"Ok", "Err"}
    /\ ExtDone => ext_result.tag \in {"Ok", "Err"}

\* C10: extraction of a Plan with n = 0 returns InvalidInput, and planning with
\* n_min = 0, conservative off and a tolerable error equal to the book value
\* returns such a Plan.
C10_NoSamplingPlan ==
    /\ (ExtDone /\ ThePlan.n = 0) =>
          ext_result = InvalidInput("plan.n must be > 0 for extraction")
    /\ (PlanDone /\ PreconditionsHold /\ plan_opts.n_min = 0 /\ ~plan_opts.conservative
           /\ FEq(TolerableOfCall, BookValueOfCall))
          => plan_result.tag = "Ok" /\ ThePlan.n = 0

C10_Witness ==
    /\ ExtDone
    /\ plan_opts.n_min = 0
    /\ ~plan_opts.conservative
    /\ FEq(ThePlan.tolerable_error, ThePlan.book_value)
    /\ ThePlan.n = 0
    /\ ext_result.tag = "Err"
    /\ ext_result.kind = "InvalidInput"

\* expected errors a second planning call is compared on
MonoExpectedSet == {Zero, Fin(1, 4), Fin(1, 2), Whole(1)}

\* the results of the planning call repeated with expected error e
PlansWithExpected(e) == mus_planning(book_values, [plan_opts EXCEPT !.expected_error = e])

\* C11: with the conservative size off, for a fixed population, confidence level,
\* tolerable error and n_min, a Plan returned for expected error e1 never has a
\* larger n than a Plan returned for an expected error e2 >= e1.
C11_Monotone ==
    (pc = "planned" /\ plan_result.tag = "Ok" /\ ~plan_opts.conservative) =>
        \A e2 \in MonoExpectedSet :
            FLe(plan_opts.expected_error, e2) =>
                \A r \in PlansWithExpected(e2) : r.tag = "Ok" => ThePlan.n <= r.v.n

\* C12: for amounts with a positive total and 1 <= n <= len(amounts), the index
\* sequence the PPS path returns has length <= n, is strictly increasing, and
\* every index is < len(amounts).
C12_PpsIndices ==
    (pc = "pps_done" /\ pps_result.tag = "Ok" /\ FGt(FSum(amounts), Zero)
        /\ 1 <= pps_n /\ pps_n <= Len(amounts))
        => LET idx == pps_result.v
           IN  /\ Len(idx) <= pps_n
               /\ \A j \in 1..Len(idx) : 0 <= idx[j] /\ idx[j] < Len(amounts)
               /\ \A j \in 1..(Len(idx) - 1) : idx[j] < idx[j + 1]

C12_Witness ==
    /\ pc = "pps_done"
    /\ pps_result.tag = "Ok"
    /\ FGt(FSum(amounts), Zero)
    /\ pps_n = Len(amounts)
    /\ Len(pps_idxs.v) = pps_n
    /\ Len(pps_result.v) > 1
    /\ Len(pps_result.v) < Len(pps_idxs.v)

StartPointError == InvalidInput("start.point must be in [0, interval]")

NoItemsLeft == Calculation("no items left for sampling after removing high values")

\* the explicit start point of the call lies in [0, interval]
StartPointInRange ==
    FGe(ext_opts.start_point.v, Zero) /\ FLe(ext_opts.start_point.v, interval)

\* C13: an extraction that reaches its selection (plan.n > 0, slots left for
\* sampling) with an explicit start point outside [0, interval], interval being
\* the one used for selection (the stabilized one with obey_n_as_min), returns
\* InvalidInput; every returned Extraction has 0 <= start_point <= interval.
C13_StartPointInRange ==
    /\ (ExtDone /\ ext_opts.start_point.tag = "Some" /\ ThePlan.n > 0
           /\ ext_result # NoItemsLeft /\ ~StartPointInRange)
          => ext_result = StartPointError
    /\ ExtOk => FLe(Zero, TheExt.start_point) /\ FLe(TheExt.start_point, interval)

C13_Witness ==
    /\ ExtDone
    /\ ext_opts.obey_n_as_min
    /\ ext_opts.start_point.tag = "Some"
    /\ FLe(ext_opts.start_point.v, ThePlan.high_value_threshold)
    /\ FGt(ext_opts.start_point.v, interval)
    /\ ext_result = StartPointError

\* the book values of the sampling population a returned Extraction carries
PopulationValues(ext) == [j \in 1..Len(ext.sample_population) |-> ext.sample_population[j][1]]

\* the hit positions of the grid of an Extraction built on interval i
GridOf(ext, i) ==
    SeqToSet(SamplingUnits(ext.start_point, i,
                           IF ext.plan.n >= Len(ext.high_values)
                           THEN ext.plan.n - Len(ext.high_values) ELSE 0))

\* C14: in every returned Extraction sampling_interval is the sum of the book
\* values of the final sampling population divided by the number of selected
\* items, and +infinity when nothing was selected; the selected hits lie on the
\* grid of the interval used for selection, whatever sampling_interval is.
C14_ReassessedInterval ==
    ExtOk =>
        /\ Len(TheExt.sample) = 0 => TheExt.sampling_interval = PInf
        /\ Len(TheExt.sample) > 0 =>
              TheExt.sampling_interval =
                  FDiv(FSum(PopulationValues(TheExt)), Whole(Len(TheExt.sample)))
        /\ \A j \in 1..Len(TheExt.sample) :
              TheExt.sample[j].mus_hit \in GridOf(TheExt, interval)

C14_Witness ==
    /\ ExtOk
    /\ Len(TheExt.sample) > 1
    /\ IsFin(TheExt.sampling_interval)
    /\ TheExt.sampling_interval # interval
    /\ \E j \in 1..Len(TheExt.sample) :
          TheExt.sample[j].mus_hit \notin GridOf(TheExt, TheExt.sampling_interval)

\* n_optimal of the call (lines 235-279), a record [tag "N", n] when it is decided
OptimalOfCall ==
    LET bv == BookValueOfCall
        o == ResolveOpts(plan_opts, bv)
        br == PlanBranch(book_values, o, bv)
    IN  IF br.tag = "Loop" THEN SearchFrom(0, Len(book_values), o, bv) ELSE br

\* the sizes mus_calc_n_conservative can return for the call
ConservativeOfCall ==
    LET bv == BookValueOfCall
        o == ResolveOpts(plan_opts, bv)
    IN  {c.v : c \in {r \in mus_calc_n_conservative(o.confidence_level, o.tolerable_error,
                                                    o.expected_error, bv) : r.tag = "Ok"}}

\* C15: every returned Plan has n >= n_min; n is the maximum of the optimal size
\* and n_min and, only when conservative is set, of the conservative size too.
C15_FinalSize ==
    (pc = "planned" /\ plan_result.tag = "Ok") =>
        /\ ThePlan.n >= plan_opts.n_min
        /\ OptimalOfCall.tag = "N"
        /\ IF plan_opts.conservative
           THEN \E c \in ConservativeOfCall :
                    ThePlan.n = Max(Max(OptimalOfCall.n, plan_opts.n_min), c)
           ELSE ThePlan.n = Max(OptimalOfCall.n, plan_opts.n_min)

C15_Witness ==
    /\ pc = "planned"
    /\ plan_result.tag = "Ok"
    /\ plan_opts.n_min > 0
    /\ OptimalOfCall.n < plan_opts.n_min
    /\ ~plan_opts.conservative
    /\ ThePlan.n = plan_opts.n_min

\* the positions (1-based) of the sampling population a selected item can stand
\* for: its book value and cumulative sum are the ones recorded there
PositionsOf(item, ext) ==
    {j \in 1..Len(ext.sample_population) :
        ext.sample_population[j] = <<item.book_value, item.cum_after>>}

\* cum_before and cum_after of the item are the cumulative unit sums just before
\* and at one of its positions
CumAround(item, ext) ==
    \E j \in PositionsOf(item, ext) :
        item.cum_before = IF j = 1 THEN 0 ELSE ext.sample_population[j - 1][2]

\* C16 as claimed: for every selected item cum_after - cum_before is the item's
\* book value rounded to a unit count, and cum_before and cum_after are the
\* cumulative unit sums immediately before and at that item.
C16_UnitsOfItem ==
    ExtOk =>
        \A j \in 1..Len(TheExt.sample) :
            LET item == TheExt.sample[j]
            IN  /\ item.cum_after - item.cum_before = round_to_u64(item.book_value)
                /\ CumAround(item, TheExt)

\* C16 amended: the same, the difference being required only of items whose
\* cumulative sum has not saturated at u64::MAX.
C16_UnitsUnlessSaturated ==
    ExtOk =>
        \A j \in 1..Len(TheExt.sample) :
            LET item == TheExt.sample[j]
            IN  /\ item.cum_after < U64Max
                      => item.cum_after - item.cum_before = round_to_u64(item.book_value)
                /\ CumAround(item, TheExt)

C16_Witness ==
    /\ ExtOk
    /\ \E j \in 1..Len(TheExt.sample) :
          LET item == TheExt.sample[j]
          IN  /\ item.cum_before > 0
              /\ item.cum_after < U64Max
              /\ item.cum_after - item.cum_before > 1
    /\ \E j \in 1..Len(TheExt.sample) : TheExt.sample[j].cum_after = U64Max

\* the cumulative unit sums of the sampling population of a returned Extraction
CumulativeOf(ext) == [j \in 1..Len(ext.sample_population) |-> ext.sample_population[j][2]]

\* the hit positions that survive line 371
RetainedHits(ext, i) ==
    LET cum == CumulativeOf(ext)
        draws_needed == IF ext.plan.n >= Len(ext.high_values)
                        THEN ext.plan.n - Len(ext.high_values) ELSE 0
    IN  Retain(SamplingUnits(ext.start_point, i, draws_needed),
               IF cum = <<>> THEN 0 ELSE cum[Len(cum)])

\* the item stands at the smallest position whose cumulative sum is >= its hit
AtSmallestIndex(item, ext) ==
    \E j \in PositionsOf(item, ext) :
        /\ item.cum_before = IF j = 1 THEN 0 ELSE CumulativeOf(ext)[j - 1]
        /\ CumulativeOf(ext)[j] >= item.mus_hit
        /\ \A k \in 1..(j - 1) : CumulativeOf(ext)[k] < item.mus_hit

\* every retained hit selects one item, in the order of the hits, unless the
\* sampling population is empty
HitsSelect(ext, i) ==
    IF ext.sample_population = <<>> THEN ext.sample = <<>>
    ELSE [j \in 1..Len(ext.sample) |-> ext.sample[j].mus_hit] = RetainedHits(ext, i)

\* C17 as claimed: every retained hit u selects the smallest index i with
\* cumulative[i] >= u, and that index satisfies cum[i-1] < u <= cum[i] with
\* cum[-1] taken as 0.
C17_FindInterval ==
    ExtOk =>
        /\ HitsSelect(TheExt, interval)
        /\ \A j \in 1..Len(TheExt.sample) :
              LET item == TheExt.sample[j]
              IN  /\ AtSmallestIndex(item, TheExt)
                  /\ item.cum_before < item.mus_hit
                  /\ item.mus_hit <= item.cum_after

\* C17 for the hits u > 0 only: every retained hit selects the smallest index i
\* with cumulative[i] >= u, and for u > 0 that index has cum[i-1] < u <= cum[i].
C17_SmallestIndex ==
    ExtOk =>
        /\ HitsSelect(TheExt, interval)
        /\ \A j \in 1..Len(TheExt.sample) :
              LET item == TheExt.sample[j]
              IN  /\ AtSmallestIndex(item, TheExt)
                  /\ item.mus_hit <= item.cum_after
                  /\ item.mus_hit > 0 => item.cum_before < item.mus_hit

\* the final cumulative unit sum of the sampling population (pop_sum_u)
LastCum(ext) ==
    IF ext.sample_population = <<>> THEN 0
    ELSE CumulativeOf(ext)[Len(ext.sample_population)]

SampleHits(ext) == {ext.sample[j].mus_hit : j \in 1..Len(ext.sample)}

\* C18 as claimed: no selected item has a hit at or beyond the final cumulative
\* unit sum of the sampling population.
C18_HitBelowTotal ==
    ExtOk => \A u \in SampleHits(TheExt) : u < LastCum(TheExt)

\* C18 amended: no selected item has a hit beyond the final cumulative unit sum,
\* and a hit of the grid that is not beyond it (one equal to it included) selects
\* an item whenever the sampling population is not empty.
C18_HitWithinTotal ==
    ExtOk =>
        /\ \A u \in SampleHits(TheExt) : u <= LastCum(TheExt)
        /\ TheExt.sample_population # <<>> =>
              \A u \in GridOf(TheExt, interval) :
                  u <= LastCum(TheExt) => u \in SampleHits(TheExt)

C18_Witness ==
    /\ ExtOk
    /\ LastCum(TheExt) > 1
    /\ LastCum(TheExt) \in SampleHits(TheExt)
    /\ \E u \in GridOf(TheExt, interval) : u > LastCum(TheExt)

\* rounding to the nearest integer, a value halfway between two integers going
\* to the even one
RoundHalfEven(x) ==
    IF ~IsFin(x) THEN x
    ELSE LET fl == x.n \div x.d
             twice == 2 * (x.n - fl * x.d)
         IN  IF twice < x.d THEN Whole(fl)
             ELSE IF twice > x.d THEN Whole(fl + 1)
             ELSE IF fl % 2 = 0 THEN Whole(fl) ELSE Whole(fl + 1)

\* the grid of hit positions j = 0..=draws_needed with half-to-even rounding
HalfEvenUnits(start_point, i, draws_needed) ==
    LET grid_step == FDiv(RoundHalfEven(FMul(i, Whole(100))), Whole(100))
        Unit(j) ==
            LET x == RoundHalfEven(FAdd(start_point, FMul(Whole(j), grid_step)))
            IN  IF FLe(x, Zero) THEN 0 ELSE AsU64(x)
    IN  [j \in 1..(draws_needed + 1) |-> Unit(j - 1)]

\* C19: the hits of a returned Extraction are the positions
\* round_half_even(start + j * round(interval, 2 decimals)), clamped to >= 0, that
\* are not beyond the total: a value halfway between two integers goes to the even
\* one.
C19_HalfEvenHits ==
    (ExtOk /\ TheExt.sample_population # <<>>) =>
        LET draws_needed == IF ThePlan.n >= Len(TheExt.high_values)
                            THEN ThePlan.n - Len(TheExt.high_values) ELSE 0
        IN  [j \in 1..Len(TheExt.sample) |-> TheExt.sample[j].mus_hit]
                = Retain(HalfEvenUnits(TheExt.start_point, interval, draws_needed),
                         LastCum(TheExt))

AtOrAbove(v) == FGe(v, interval)

Below(v) == FLt(v, interval)

\* C20: a successful extraction with obey_n_as_min ends at a fixed point: the
\* interval used for selection is sum(sample_population) / (plan.n - |high_values|),
\* high_values and sample_population are exactly the values of plan.data >= and <
\* that interval, and the hits lie on its grid; a call that meets
\* plan.n - |high_values| <= 0 in the loop fails with MusError::Calculation.
C20_FixedPoint ==
    /\ (ExtOk /\ ext_opts.obey_n_as_min) =>
          /\ ThePlan.n - Len(TheExt.high_values) > 0
          /\ interval = FDiv(FSum(PopulationValues(TheExt)),
                             Whole(ThePlan.n - Len(TheExt.high_values)))
          /\ TheExt.high_values = SelectSeq(ThePlan.data, AtOrAbove)
          /\ PopulationValues(TheExt) = SelectSeq(ThePlan.data, Below)
          /\ SampleHits(TheExt) \subseteq GridOf(TheExt, interval)
    /\ (ExtDone /\ ext_opts.obey_n_as_min /\ ThePlan.n > 0
           /\ ThePlan.n - Len(high_values) <= 0)
          => ext_result = NoItemsLeft

C20_Witness ==
    /\ ExtOk
    /\ ext_opts.obey_n_as_min
    /\ interval # ThePlan.high_value_threshold
    /\ TheExt.high_values # HighOf(ThePlan.data, ThePlan.high_value_threshold)

\* lines 271-275
NotPlausible == Calculation("n.optimal not plausible")

\* C21: no call of mus_planning whose preconditions hold returns the
\* "n.optimal not plausible" Calculation error.
C21_NeverNotPlausible ==
    (PlanDone /\ PreconditionsHold) => plan_result # NotPlausible

\* the draw counts of the search range at which P[X <= q] <= alpha
DrawRange == 0..Min(draw_args.k_max, draw_args.m + draw_args.n_black)

CdfOfCall(k) ==
    CdfAtMost(draw_args.q, draw_args.m + draw_args.n_black, draw_args.m, k, draw_args.alpha)

Satisfying == {k \in DrawRange : CdfOfCall(k)}

\* P[X <= q] does not increase with the number of draws, as far as alpha can tell
CdfNonIncreasing ==
    \A k \in DrawRange : \A j \in DrawRange : (CdfOfCall(k) /\ k <= j) => CdfOfCall(j)

DrawDone == pc = "draw_done"

ResolvedOfCall == ResolveOpts(plan_opts, BookValueOfCall)

\* calculate_n_hyper(qq, ..) of the call finds no k in its search range with
\* P[X <= qq] <= alpha, so that line 135 supplies k_max.min(n_total)
SearchExhausted(qq) ==
    LET o == ResolvedOfCall
        alpha == FSub(Whole(1), o.confidence_level)
        max_error_rate == FDiv(o.tolerable_error, BookValueOfCall)
        m == round_to_u64(FMul(max_error_rate, BookValueOfCall))
        n_black == round_to_u64(FMul(FSub(Whole(1), max_error_rate), BookValueOfCall))
        k_upper == Min(n_black + qq, round_to_u64(BookValueOfCall))
    IN  /\ m + n_black > 0
        /\ \A k \in 0..Min(k_upper, m + n_black) : ~CdfAtMost(qq, m + n_black, m, k, alpha)

\* the error counts at which the call evaluated calculate_n_hyper
EvaluatedAt == {0, Len(book_values)} \cup 0..q

\* C23: a call whose hypergeometric search found no draw count at one of the
\* error counts it evaluated returns no Plan.
C23_NoFallback ==
    (HasPlan /\ FLt(ResolvedOfCall.tolerable_error, BookValueOfCall)) =>
        \A qq \in EvaluatedAt : ~SearchExhausted(qq)

\* the call entered the loop of line 252 and left it at q
SearchedCall ==
    /\ pc \in {"planned", "stabilize", "extracted"}
    /\ PreconditionsHold
    /\ PlanBranch(book_values, ResolvedOfCall, BookValueOfCall).tag = "Loop"

\* n(j) of the call, and n(j) * expected_error / book_value > j
SizeAt(j) == NHyper(j, ResolvedOfCall, BookValueOfCall).v

RatioExceeds(j) ==
    FGt(FDiv(FMul(Whole(SizeAt(j)), ResolvedOfCall.expected_error), BookValueOfCall),
        Whole(j))

\* C24 as claimed: the search stops at the first q at which the ratio
\* n(q) * expected_error / book_value exceeds q.
C24_StopsWhenExceeds ==
    SearchedCall =>
        /\ RatioExceeds(q)
        /\ \A j \in 0..(q - 1) : ~RatioExceeds(j)

\* C24, amended: the search evaluates n(q) at q = 0, 1, 2, .. and stops at the
\* first q at which the ratio no longer exceeds q; the call then returns what the
\* interpolation between n(q-1) and n(q) gives: its error, or a Plan whose size
\* (no floor, not conservative) lies between the two or is the number of items.
C24_StopsWhenNotExceeding ==
    /\ pc = "search" => \A j \in 0..(q - 1) : RatioExceeds(j)
    /\ SearchedCall =>
          /\ ~RatioExceeds(q)
          /\ \A j \in 0..(q - 1) : RatioExceeds(j)
          /\ LET ip == Interpolate(q, Len(book_values), ResolvedOfCall, BookValueOfCall)
             IN  IF ip.tag = "Err" THEN plan_result = ip
                 ELSE plan_result \in
                         PlanFinish(book_values, ResolvedOfCall, BookValueOfCall, ip.n)
          /\ (plan_result.tag = "Ok" /\ plan_opts.n_min = 0 /\ ~plan_opts.conservative) =>
                IF q = 0 THEN ThePlan.n = SizeAt(0)
                ELSE \/ ThePlan.n = Len(book_values)
                     \/ SizeAt(q - 1) <= ThePlan.n /\ ThePlan.n <= SizeAt(q)

C24_Witness ==
    /\ SearchedCall
    /\ plan_result.tag = "Ok"
    /\ plan_opts.n_min = 0
    /\ ~plan_opts.conservative
    /\ q >= 1
    /\ SizeAt(q - 1) < SizeAt(q)
    /\ ThePlan.n < Len(book_values)

\* C25: the search over q never passes the number of items, and a call that
\* entered it returns.
C25_PlanningTerminates ==
    /\ [](pc = "search" => q <= Len(book_values))
    /\ (pc = "search") ~> (pc = "planned")

C25_Witness ==
    /\ SearchedCall
    /\ q >= 2
    /\ q = Len(book_values)

\* the binary search of min_draws_for_cdf_at_most_q made fair in the same way,
\* and its termination
DrawFair == []<>(pc = "draw_done") \/ []<><<NextDraws>>_vars

SpecDrawsFair == SpecDraws /\ DrawFair

DrawsTerminate == <>(pc = "draw_done")

\* the state in which mus_extraction enters the loop of line 317
AtLoopEntry ==
    /\ interval = ThePlan.high_value_threshold
    /\ high_values = HighOf(ThePlan.data, ThePlan.high_value_threshold)

\* C26: the stabilization loop makes progress until it ends: an iteration never
\* reproduces the interval and the partition it started from, and after the
\* first re-derivation the interval never increases and the set of high values
\* never shrinks, so that the loop can neither repeat a state nor oscillate.
C26_LoopProgresses ==
    /\ [](pc = "stabilize" => StabilizeMoves)
    /\ [][(pc = "stabilize" /\ pc' = "stabilize" /\ ~AtLoopEntry) =>
             /\ ~FGt(interval', interval)
             /\ Len(high_values') >= Len(high_values)]_vars

\* termination of the loop as a liveness property of SpecStabilize; it fails
\* on a run that alternates between two partitions for ever
StabilizationTerminates == (pc = "stabilize") ~> (pc = "extracted")

\* C27: a Plan returned for n_min = 0 and conservative = false has n <= the
\* number of items of the population.
C27_SizeAtMostItems ==
    (HasPlan /\ plan_opts.n_min = 0 /\ ~plan_opts.conservative) =>
        ThePlan.n <= Len(book_values)

\* high and low, each in its order, are together exactly the items of data
RECURSIVE IsPartition(_, _, _)
IsPartition(data, high, low) ==
    IF data = <<>> THEN high = <<>> /\ low = <<>>
    ELSE \/ /\ high # <<>>
            /\ Head(high) = Head(data)
            /\ IsPartition(Tail(data), Tail(high), low)
         \/ /\ low # <<>>
            /\ Head(low) = Head(data)
            /\ IsPartition(Tail(data), high, Tail(low))

\* C28: the Plan carries the values it was given; the Extraction carries that
\* Plan unchanged, and its high values and the book values of its sampling
\* population are an order-preserving partition of plan.data.
C28_InputsKept ==
    /\ HasPlan => ThePlan.data = book_values
    /\ ExtOk =>
          /\ TheExt.plan = ThePlan
          /\ TheExt.plan.data = book_values
          /\ Len(TheExt.high_values) + Len(TheExt.sample_population) = Len(book_values)
          /\ IsPartition(book_values, TheExt.high_values, PopulationValues(TheExt))

C28_Witness ==
    /\ ExtOk
    /\ \E j \in 1..Len(book_values) : FLt(book_values[j], Zero)
    /\ TheExt.high_values # <<>>
    /\ Len(TheExt.sample_population) >= 2
    /\ Len(TheExt.sample) > 0

====
